---------------------------- MODULE Spec2Model ----------------------------
(***************************************************************************)
(* Nova: an LLM tool-calling agent (src/agent.py) over a CSV-backed HCP    *)
(* contact store, with a Gradio dashboard (src/app.py).                    *)
(*                                                                         *)
(* The model has two parts that share the contact store:                   *)
(*   - the contact store operations of NovaAgent (_update_contact_record,  *)
(*     _query_hcp_database) and the dashboard callback record_contact;     *)
(*     _update_contact_record is four steps (the flag, to_csv opening the  *)
(*     file, formatting the frame, writing and closing), between which the *)
(*     other callback of the dashboard and other processes can act;        *)
(*   - NovaAgent.run: the AgentExecutor loop configured in                 *)
(*     NovaAgent.__init__ (max_iterations = 5, handle_parsing_errors =     *)
(*     True, ConversationBufferMemory), its tool dispatch through          *)
(*     StructuredTool with the pydantic argument schemas, and the          *)
(*     dashboard chat callbacks (process_message, respond, Clear Chat).    *)
(*                                                                         *)
(* A data frame is a sequence of rows; a row keeps the columns the code    *)
(* reads or writes: hcp_id, specialty, city, contacted.                    *)
(***************************************************************************)
EXTENDS Integers, Sequences, FiniteSets, TLC

VARIABLES
    hcp_data,            \* NovaAgent.hcp_data: the in-memory data frame
    csv_file,            \* data/hcp_combined.csv: rows as written by to_csv
    last_call,           \* the most recent call of a tool function or of the
                         \* dashboard's record_contact, and its outcome
    memory,              \* NovaAgent.memory: the chat_history messages
    chatbot,             \* dashboard: the gr.Chatbot value, (message, reply) pairs
    chat_history,        \* respond's chat_history: the chatbot value it was
                         \* called with, << >> when no respond is in progress
    pc,                  \* "idle", "running" while run() is in its loop, or
                         \* "tool" while the loop waits for a tool's to_csv
    input,               \* the query of the run in progress / last run
    intermediate_steps,  \* AgentExecutor's scratchpad of the run
    iterations,          \* AgentExecutor's iteration counter of the run
    invocations,         \* tool implementations invoked in the run
    llm_output,          \* the model's most recent output
    run_result,          \* how the last run() call ended
    runs,                \* number of run() calls started
    model_calls,         \* calls of the language model made in the run
    kartei_file,         \* data/kartei.csv: rows as written by to_csv, or missing
    instances,           \* NovaAgent instances of other processes over the
                         \* same data/hcp_combined.csv, each with its own frame
    last_writer,         \* the instance whose to_csv wrote the file last
    csv_truncated,       \* data/hcp_combined.csv holds no byte: a to_csv has
                         \* opened it for writing and none has written yet
    updates,             \* the dashboard's threads in _update_contact_record:
                         \* the call each one is in and how far it has got
    scrapers,            \* the processes that call update_kartei, each with
                         \* the step of the call it is in
    pydantic_version,    \* major.minor of the installed pydantic
    python_version       \* minor version of the Python 3 that runs the code

storeVars == <<hcp_data, csv_file, last_call, csv_truncated, updates>>
chatVars == <<memory, chatbot>>
loopVars == <<pc, input, intermediate_steps, iterations, invocations,
              llm_output, run_result, runs, model_calls, chat_history>>
envVars == <<kartei_file, instances, last_writer, scrapers, pydantic_version,
             python_version>>
vars == <<hcp_data, csv_file, last_call, memory, chatbot, pc,
          input, intermediate_steps, iterations, invocations, llm_output,
          run_result, runs, model_calls, kartei_file, instances, last_writer,
          chat_history, csv_truncated, updates, scrapers, pydantic_version,
          python_version>>

---------------------------------------------------------------------------
(* Bounds of the model *)

MaxRecords == 2
MaxRuns == 2

(* Program constants *)

max_iterations == 5
HeadLimit == 10

---------------------------------------------------------------------------
(* Values *)

None == << >>
Some(v) == <<v>>

Specialties == {"Cardiology", "cardiology"}
Cities == {"Berlin", "Munich"}
Ids == {1, 2}

Rows == [hcp_id : Ids, specialty : Specialties, city : Cities,
         contacted : BOOLEAN]

RECURSIVE SeqsUpTo(_, _)
SeqsUpTo(S, n) ==
    IF n = 0 THEN {<< >>}
    ELSE LET shorter == SeqsUpTo(S, n - 1)
         IN  shorter \cup {Append(s, x) : s \in {t \in shorter : Len(t) = n - 1}, x \in S}

\* A data frame longer than the head(10) cut of _query_hcp_database.
BigFrame ==
    [i \in 1 .. (HeadLimit + 2) |->
        [hcp_id |-> i, specialty |-> "Cardiology",
         city |-> IF i = 3 THEN "Munich" ELSE "Berlin",
         contacted |-> (i = 2)]]

Frames == SeqsUpTo(Rows, MaxRecords) \cup {BigFrame}

\* Frames in which a row's specialty and city follow from its id.
StoreRows ==
    {[hcp_id |-> i, specialty |-> IF i = 1 THEN "Cardiology" ELSE "cardiology",
      city |-> IF i = 1 THEN "Berlin" ELSE "Munich", contacted |-> c] :
        i \in Ids, c \in BOOLEAN}

StoreFrames == SeqsUpTo(StoreRows, MaxRecords)

\* An exception: its type, the names it carries (fields, keywords) and
\* its message, str(e).
NoExc == [type |-> "", about |-> << >>, message |-> ""]
Exc(t, a, m) == [type |-> t, about |-> a, message |-> m]

\* What a tool function returns: a string or a list of rows.
StrValue(s) == [kind |-> "str", text |-> s, rows |-> << >>]
ListValue(rs) == [kind |-> "list", text |-> "", rows |-> rs]

---------------------------------------------------------------------------
(* The CSV file: pandas writes the boolean column as True / False and      *)
(* read_csv parses it back.                                                *)

to_csv(df) ==
    [i \in 1 .. Len(df) |->
        [hcp_id |-> df[i].hcp_id, specialty |-> df[i].specialty,
         city |-> df[i].city,
         contacted |-> IF df[i].contacted THEN "True" ELSE "False"]]

read_csv(file) ==
    [i \in 1 .. Len(file) |->
        [hcp_id |-> file[i].hcp_id, specialty |-> file[i].specialty,
         city |-> file[i].city,
         contacted |-> (file[i].contacted = "True")]]

---------------------------------------------------------------------------
(* NovaAgent._update_contact_record *)

IdValues(df) == {df[i].hcp_id : i \in 1 .. Len(df)}

\* Faulty variant: the flag is set without the row mask.
MarkedFrameNoMask(df, hcp_id) ==
    [i \in 1 .. Len(df) |-> [df[i] EXCEPT !.contacted = TRUE]]

MarkedFrame(df, hcp_id) ==
    [i \in 1 .. Len(df) |->
        IF df[i].hcp_id = hcp_id THEN [df[i] EXCEPT !.contacted = TRUE]
        ELSE df[i]]

MarkedMsg(hcp_id) == "HCP " \o ToString(hcp_id) \o " marked as contacted successfully."
NotFoundMsg(hcp_id) == "HCP ID " \o ToString(hcp_id) \o " not found."

\* Faulty variant: the file is written whether or not the id was found.
update_contact_record_always_writes(df, hcp_id) ==
    IF hcp_id \in IdValues(df)
    THEN [df |-> MarkedFrame(df, hcp_id), wrote |-> TRUE,
          result |-> MarkedMsg(hcp_id)]
    ELSE [df |-> df, wrote |-> TRUE, result |-> NotFoundMsg(hcp_id)]

\* The new data frame, whether the file is rewritten, and the string returned.
update_contact_record(df, hcp_id) ==
    IF hcp_id \in IdValues(df)
    THEN [df |-> MarkedFrame(df, hcp_id), wrote |-> TRUE,
          result |-> MarkedMsg(hcp_id)]
    ELSE [df |-> df, wrote |-> FALSE, result |-> NotFoundMsg(hcp_id)]

---------------------------------------------------------------------------
(* NovaAgent._query_hcp_database *)

df_head(df, n) == SubSeq(df, 1, IF Len(df) < n THEN Len(df) ELSE n)

\* Faulty variant: the specialty is compared without regard to case.
Lower(s) == IF s = "Cardiology" THEN "cardiology" ELSE s

BySpecialtyAnyCase(df, specialty) ==
    IF specialty # ""
    THEN SelectSeq(df, LAMBDA r : Lower(r.specialty) = Lower(specialty))
    ELSE df

BySpecialty(df, specialty) ==
    IF specialty # "" THEN SelectSeq(df, LAMBDA r : r.specialty = specialty)
    ELSE df

ByCity(df, city) ==
    IF city # "" THEN SelectSeq(df, LAMBDA r : r.city = city) ELSE df

ByContacted(df, contacted) ==
    IF contacted # None
    THEN SelectSeq(df, LAMBDA r : r.contacted = contacted[1])
    ELSE df

NoHCPsMsg == "No HCPs found."

query_hcp_database(df, specialty, city, contacted) ==
    LET selected == ByContacted(ByCity(BySpecialty(df, specialty), city), contacted)
    IN  IF selected # << >> THEN ListValue(df_head(selected, HeadLimit))
        ELSE StrValue(NoHCPsMsg)

---------------------------------------------------------------------------
(* int(hcp_id) of app.record_contact: the textbox value is a string, here  *)
(* a sequence of characters, each character its Unicode code point.        *)
(* Python skips white space at both ends, takes an optional sign and then  *)
(* needs decimal digits (of any script), single underscores allowed        *)
(* between digits, and no more than int_max_str_digits digits; anything    *)
(* else is a ValueError.                                                   *)

MaxText == 1

\* "1", KAWI DIGIT ZERO (a digit from Python 3.12 on), NO-BREAK SPACE,
\* "-", "x"
TextChars == {49, 73552, 160, 45, 120}
Texts == SeqsUpTo(TextChars, MaxText)

\* The minor version of the Python 3 that runs the dashboard, which the
\* repository does not pin: 3.10 (the first with the bool | None of the
\* schemas) to 3.14
PythonVersions == 10 .. 14

\* The code points of the digit zero of every run of ten decimal digits
\* (Unicode category Nd) in the Unicode database of the Python version:
\* Unicode 13 in 3.10, 14 in 3.11, 15 in 3.12 and 3.13, 16 in 3.14
DigitZeros(version) ==
    {48, 1632, 1776, 1984, 2406, 2534, 2662, 2790, 2918, 3046, 3174, 3302,
     3430, 3558, 3664, 3792, 3872, 4160, 4240, 6112, 6160, 6470, 6608, 6784,
     6800, 6992, 7088, 7232, 7248, 42528, 43216, 43264, 43472, 43504, 43600,
     44016, 65296, 66720, 68912, 69734, 69872, 69942, 70096, 70384, 70736,
     70864, 71248, 71360, 71472, 71904, 72016, 72784, 73040, 73120, 92768,
     93008, 120782, 120792, 120802, 120812, 120822, 123200, 123632,
     125264, 130032}
    \cup (IF version >= 11 THEN {92864} ELSE {})
    \cup (IF version >= 12 THEN {73552, 124144} ELSE {})
    \cup (IF version >= 14
          THEN {68928, 71376, 71386, 72688, 90416, 93552, 118000, 124401}
          ELSE {})

\* The white space int() skips: tab to carriage return, space, and the
\* Unicode spaces
WhiteSpace ==
    {9, 10, 11, 12, 13, 32, 133, 160, 5760, 8232, 8233, 8239, 8287, 12288}
        \cup (8192 .. 8202)

PlusSign == 43
MinusSign == 45
Underscore == 95

\* The sys.int_info default of the digits int() converts
int_max_str_digits == 4300

DigitValue(c, version) ==
    IF \E z \in DigitZeros(version) : c \in z .. z + 9
    THEN c - (CHOOSE z \in DigitZeros(version) : c \in z .. z + 9)
    ELSE -1

IsDigit(c, version) == DigitValue(c, version) >= 0

RECURSIVE LStrip(_)
LStrip(t) == IF t # << >> /\ t[1] \in WhiteSpace THEN LStrip(Tail(t)) ELSE t

RECURSIVE RStrip(_)
RStrip(t) ==
    IF t # << >> /\ t[Len(t)] \in WhiteSpace THEN RStrip(SubSeq(t, 1, Len(t) - 1)) ELSE t

\* Digits with single underscores between them.
WellFormedDigits(d, version) ==
    /\ d # << >>
    /\ IsDigit(d[1], version) /\ IsDigit(d[Len(d)], version)
    /\ \A i \in 1 .. Len(d) :
          \/ IsDigit(d[i], version)
          \/ /\ d[i] = Underscore /\ i > 1 /\ i < Len(d)
             /\ IsDigit(d[i - 1], version) /\ IsDigit(d[i + 1], version)

RECURSIVE DigitsValue(_, _, _)
DigitsValue(d, acc, version) ==
    IF d = << >> THEN acc
    ELSE IF d[1] = Underscore THEN DigitsValue(Tail(d), acc, version)
    ELSE DigitsValue(Tail(d), 10 * acc + DigitValue(d[1], version), version)

\* int(text) under the Python version:
\* [ok |-> TRUE, value |-> n], or ok = FALSE for a ValueError.
py_int(text, version) ==
    LET s == RStrip(LStrip(text))
        signed == s # << >> /\ s[1] \in {MinusSign, PlusSign}
        d == IF signed THEN Tail(s) ELSE s
    IN  IF /\ WellFormedDigits(d, version)
           /\ Len(SelectSeq(d, LAMBDA c : IsDigit(c, version))) <= int_max_str_digits
        THEN [ok |-> TRUE,
              value |-> IF signed /\ s[1] = MinusSign THEN 0 - DigitsValue(d, 0, version)
                        ELSE DigitsValue(d, 0, version)]
        ELSE [ok |-> FALSE, value |-> 0]

\* int(hcp_id) of every text the dashboard is given, by Python version
int == [version \in PythonVersions |-> [text \in Texts |-> py_int(text, version)]]

NotANumberMsg == "Error: HCP ID must be a number."

---------------------------------------------------------------------------
(* Calls of the tool functions.  last_call records the function, its       *)
(* arguments, what it returned or raised and whether it rewrote the file,  *)
(* and, for a call that rewrote data/hcp_combined.csv, the frame and the   *)
(* file as they were when it returned.                                     *)

NoCall == [fn |-> "", args |-> << >>, value |-> StrValue(""), wrote |-> FALSE,
           exc |-> NoExc, repeat |-> FALSE, store |-> << >>]

\* repeat: the call has the function and arguments of the call before it
Call(fn, args, value, wrote, exc) ==
    [fn |-> fn, args |-> args, value |-> value, wrote |-> wrote, exc |-> exc,
     repeat |-> (last_call.fn = fn /\ last_call.args = args), store |-> << >>]

\* What a file holds after rows are written from its start: the rows,
\* and behind them what another writer had put there.  (Between two
\* threads over one frame the texts differ by one flag at most; the
\* shorter then leaves the longer's last line break behind it, an empty
\* line that read_csv skips.)
Overwritten(file, rows) ==
    rows \o SubSeq(file, Len(rows) + 1, Len(file))

\* The callbacks of the dashboard that reach _update_contact_record:
\* respond (msg.submit: the chat, through run() and the RecordContact
\* tool) and record_contact (record_button.click).  Gradio runs each in a
\* worker thread of its own, and both use the one NovaAgent of app.py,
\* line 9, with its one frame; nothing locks the frame or the file.
Threads == {"respond", "record_contact"}

\* A thread that is not in _update_contact_record.  A thread that is in
\* it keeps the call, the rows to_csv has formatted and, for the
\* properties, the frame as the call found it.
NoUpdate ==
    [at |-> "idle", fn |-> "", args |-> << >>, hcp_id |-> 0, found |-> << >>,
     rows |-> << >>]

\* self._update_contact_record(hcp_id) in thread t, reached by the call
\* fn(args), lines 124, 125 and 128: an id that is not found returns the
\* not-found message; for one that is found the flag is set in the frame
\* (the assignment of a bool into a bool column, in place) and to_csv is
\* still to come
UpdateContactRecord(t, fn, args, hcp_id) ==
    /\ updates[t].at = "idle"
    /\ IF update_contact_record(hcp_data, hcp_id).wrote
       THEN /\ hcp_data' = update_contact_record(hcp_data, hcp_id).df
            /\ updates' = [updates EXCEPT ![t] =
                   [at |-> "flagged", fn |-> fn, args |-> args, hcp_id |-> hcp_id,
                    found |-> hcp_data, rows |-> << >>]]
            /\ UNCHANGED <<csv_file, last_call, csv_truncated>>
       ELSE /\ last_call' = Call(fn, args,
                                  StrValue(update_contact_record(hcp_data, hcp_id).result),
                                  FALSE, NoExc)
            /\ UNCHANGED <<hcp_data, csv_file, csv_truncated, updates>>

\* Line 126, to_csv opens data/hcp_combined.csv for writing: open(path,
\* "w") empties the file
ToCsvOpen(t) ==
    /\ updates[t].at = "flagged"
    /\ csv_file' = << >>
    /\ csv_truncated' = TRUE
    /\ updates' = [updates EXCEPT ![t].at = "opened"]
    /\ UNCHANGED <<hcp_data, last_call>>

\* Line 126, to_csv formats the rows of the frame as it is now into the
\* handle's buffer (the frames here are far smaller than the buffer)
ToCsvFormat(t) ==
    /\ updates[t].at = "opened"
    /\ updates' = [updates EXCEPT ![t].at = "formatted", ![t].rows = to_csv(hcp_data)]
    /\ UNCHANGED <<hcp_data, csv_file, last_call, csv_truncated>>

\* Lines 126 and 127, to_csv closes the file: the buffer is written from
\* the start of the file; then the success message is returned
ToCsvClose(t) ==
    /\ updates[t].at = "formatted"
    /\ csv_file' = Overwritten(csv_file, updates[t].rows)
    /\ csv_truncated' = FALSE
    /\ last_call' = [Call(updates[t].fn, updates[t].args,
                           StrValue(MarkedMsg(updates[t].hcp_id)), TRUE, NoExc)
                          EXCEPT !.store = <<hcp_data, Overwritten(csv_file, updates[t].rows)>>]
    /\ updates' = [updates EXCEPT ![t] = NoUpdate]
    /\ UNCHANGED hcp_data

\* self._query_hcp_database(specialty, city, contacted): reads a copy
QueryHcpDatabase(specialty, city, contacted) ==
    /\ last_call' = Call("_query_hcp_database",
                          [specialty |-> specialty, city |-> city, contacted |-> contacted],
                          query_hcp_database(hcp_data, specialty, city, contacted),
                          FALSE, NoExc)
    /\ UNCHANGED <<hcp_data, csv_file, csv_truncated, updates>>

\* app.record_contact(hcp_id): the Record Contact button of the dashboard,
\* up to the return of a text that is no number or of an id that is not
\* found, or to the flag of one that is; the string returned is shown in
\* the Status textbox
record_contact(text) ==
    IF int[python_version][text].ok
    THEN UpdateContactRecord("record_contact", "record_contact", [hcp_id |-> text],
                             int[python_version][text].value)
    ELSE /\ updates["record_contact"].at = "idle"
         /\ last_call' = Call("record_contact", [hcp_id |-> text],
                               StrValue(NotANumberMsg), FALSE, NoExc)
         /\ UNCHANGED <<hcp_data, csv_file, csv_truncated, updates>>

\* A file of the data directory: missing, without a byte (opened for
\* writing, nothing written yet), or its rows
NoFile == [exists |-> FALSE, empty |-> FALSE, rows |-> << >>]
EmptyFile == [exists |-> TRUE, empty |-> TRUE, rows |-> << >>]
File(rows) == [exists |-> TRUE, empty |-> FALSE, rows |-> rows]

\* pd.read_csv of a file without a byte
EmptyDataError ==
    Exc("EmptyDataError", <<"data/kartei.csv">>, "No columns to parse from file")

\* drop_duplicates(subset='hcp_id', keep='first')
RECURSIVE drop_duplicates(_)
drop_duplicates(df) ==
    IF df = << >> THEN << >>
    ELSE LET init == drop_duplicates(SubSeq(df, 1, Len(df) - 1))
             last == df[Len(df)]
         IN  IF last.hcp_id \in IdValues(init) THEN init ELSE Append(init, last)

\* tools.record_tool.update_kartei(scraped_data), lines 14 to 25, from the
\* frame kartei_df it has read: the scraped rows, contacted = False when
\* the scraped data has no such column, are put behind kartei_df and the
\* later rows of an id already there are dropped.
\* scraped = [rows, with_contacted]: the column is given in every row or
\* in none.
update_kartei(scraped, kartei_df) ==
    LET new_data_df == IF scraped.with_contacted THEN scraped.rows
                       ELSE [i \in 1 .. Len(scraped.rows) |->
                                [scraped.rows[i] EXCEPT !.contacted = FALSE]]
        combined_df == drop_duplicates(kartei_df \o new_data_df)
    IN  [combined_df |-> combined_df,
         result |-> "Kartei updated with " \o ToString(Len(new_data_df))
                        \o " new entries."]

\* The processes that call update_kartei (the scrapers); nothing locks
\* data/kartei.csv
Scrapers == {1, 2}

\* The calls of update_kartei a scraper makes, at most
MaxCalls == 1

\* A scraper outside update_kartei, after a number of calls
IdleScraper(calls) ==
    [pc |-> "idle", scraped |-> [rows |-> << >>, with_contacted |-> FALSE],
     kartei_df |-> << >>, calls |-> calls]

\* update_kartei, lines 7 to 12: pd.read_csv of data/kartei.csv; a missing
\* file gives the frame without rows, a file without a byte raises
\* EmptyDataError, which is not caught: the call ends there
ReadKartei(k, scraped) ==
    /\ scrapers[k].pc = "idle"
    /\ scrapers[k].calls < MaxCalls
    /\ IF kartei_file.exists /\ kartei_file.empty
       THEN /\ last_call' = Call("update_kartei", [scraped_data |-> scraped],
                                  StrValue(""), FALSE, EmptyDataError)
            /\ scrapers' = [scrapers EXCEPT ![k] = IdleScraper(@.calls + 1)]
       ELSE /\ scrapers' = [scrapers EXCEPT ![k] =
                   [pc |-> "read", scraped |-> scraped,
                    kartei_df |-> IF kartei_file.exists
                                  THEN read_csv(kartei_file.rows) ELSE << >>,
                    calls |-> @.calls + 1]]
            /\ UNCHANGED last_call
    /\ UNCHANGED <<hcp_data, csv_file, kartei_file>>

\* update_kartei, line 24: to_csv opens the file for writing, which
\* empties it
OpenKartei(k) ==
    /\ scrapers[k].pc = "read"
    /\ kartei_file' = EmptyFile
    /\ scrapers' = [scrapers EXCEPT ![k] = [@ EXCEPT !.pc = "opened"]]
    /\ UNCHANGED <<hcp_data, csv_file, last_call>>

\* update_kartei, lines 24 and 25: to_csv writes the combined frame from
\* the start of the file and closes it (one write: the frames here are far
\* smaller than the handle's buffer), then the message is returned
WriteKartei(k) ==
    /\ scrapers[k].pc = "opened"
    /\ LET r == update_kartei(scrapers[k].scraped, scrapers[k].kartei_df)
       IN  /\ kartei_file' = File(Overwritten(kartei_file.rows, to_csv(r.combined_df)))
           /\ last_call' = Call("update_kartei", [scraped_data |-> scrapers[k].scraped],
                                 StrValue(r.result), TRUE, NoExc)
    /\ scrapers' = [scrapers EXCEPT ![k] = IdleScraper(@.calls)]
    /\ UNCHANGED <<hcp_data, csv_file>>

\* tools.record_tool.get_outreach_candidates(): the rows of data/kartei.csv
\* whose contacted is not True; pd.read_csv raises when the file is
\* missing and when it holds no byte
get_outreach_candidates(file) ==
    IF file.exists /\ file.empty
    THEN [value |-> StrValue(""), exc |-> EmptyDataError]
    ELSE IF file.exists
    THEN [value |-> ListValue(SelectSeq(read_csv(file.rows), LAMBDA r : r.contacted # TRUE)),
          exc |-> NoExc]
    ELSE [value |-> StrValue(""),
          exc |-> Exc("FileNotFoundError", <<"data/kartei.csv">>,
                      "[Errno 2] No such file or directory: 'data/kartei.csv'")]

GetOutreachCandidates ==
    /\ last_call' = Call("get_outreach_candidates", << >>,
                          get_outreach_candidates(kartei_file).value, FALSE,
                          get_outreach_candidates(kartei_file).exc)
    /\ UNCHANGED <<hcp_data, csv_file, csv_truncated, updates>>

---------------------------------------------------------------------------
(* The tools of NovaAgent._create_tools, in registration order, with the   *)
(* pydantic argument schemas: the required fields in declaration order and *)
(* all the fields.                                                         *)

ToolNames == <<"FindHCPs", "SearchMedicalLiterature", "GeneratePersonalizedOutreach",
               "GetOutreachCandidates", "RecordContact", "QueryHCPDatabase">>

IsTool(name) == \E i \in 1 .. Len(ToolNames) : ToolNames[i] = name

\* The fields of each args_schema, in declaration order
DeclaredFields(name) ==
    CASE name = "FindHCPs" -> <<"specialty", "location">>
      [] name = "SearchMedicalLiterature" -> <<"query", "max_results">>
      [] name = "GeneratePersonalizedOutreach" -> <<"name", "specialty", "city">>
      [] name = "RecordContact" -> <<"hcp_id">>
      [] name = "QueryHCPDatabase" -> <<"specialty", "city", "contacted">>
      [] OTHER -> << >>

RequiredFields(name) ==
    CASE name = "FindHCPs" -> <<"specialty">>
      [] name = "SearchMedicalLiterature" -> <<"query">>
      [] name = "GeneratePersonalizedOutreach" -> <<"name", "specialty", "city">>
      [] name = "RecordContact" -> <<"hcp_id">>
      [] OTHER -> << >>

SchemaFields(name) ==
    {DeclaredFields(name)[i] : i \in 1 .. Len(DeclaredFields(name))}

\* The annotation of a field: str, int, or bool | None
FieldType(f) ==
    IF f \in {"hcp_id", "max_results"} THEN "int"
    ELSE IF f = "contacted" THEN "bool"
    ELSE "str"

\* The pydantic class of each args_schema
SchemaName(name) ==
    CASE name = "FindHCPs" -> "FindHCPsInput"
      [] name = "SearchMedicalLiterature" -> "SearchPubMedInput"
      [] name = "GeneratePersonalizedOutreach" -> "OutreachInput"
      [] name = "RecordContact" -> "RecordContactInput"
      [] name = "QueryHCPDatabase" -> "HCPQueryInput"
      [] OTHER -> ""

\* The action input is a JSON object, a dict in Python: its items in the
\* order of the text, each value a string, an integer, a boolean or null.
\* Strings are of printable ASCII characters, \n, \r and \t.
PyStr(s) == [type |-> "str", text |-> s, number |-> 0, flag |-> FALSE]
PyInt(n) == [type |-> "int", text |-> "", number |-> n, flag |-> FALSE]
PyBool(b) == [type |-> "bool", text |-> "", number |-> 0, flag |-> b]
PyNone == [type |-> "NoneType", text |-> "", number |-> 0, flag |-> FALSE]

Item(key, value) == [key |-> key, value |-> value]
Keys(args) == {args[i].key : i \in 1 .. Len(args)}
Get(args, key) == args[CHOOSE i \in 1 .. Len(args) : args[i].key = key].value

\* The required fields that the action input lacks, in declaration order
MissingFields(name, args) ==
    SelectSeq(RequiredFields(name), LAMBDA f : f \notin Keys(args))

RECURSIVE Join(_)
Join(names) ==
    IF names = << >> THEN ""
    ELSE IF Len(names) = 1 THEN names[1]
    ELSE names[1] \o ", " \o Join(Tail(names))

\* repr() of a str: in single quotes, in double quotes when the string has
\* a single quote and no double quote; the quote, the backslash and the
\* control characters escaped
Contains(s, c) == \E i \in 1 .. Len(s) : SubSeq(s, i, i) = c

RECURSIVE Escaped(_, _)
Escaped(s, quote) ==
    IF s = "" THEN ""
    ELSE LET c == SubSeq(s, 1, 1)
         IN  (CASE c = "\\" -> "\\\\"
                [] c = quote -> "\\" \o c
                [] c = "\n" -> "\\n"
                [] c = "\r" -> "\\r"
                [] c = "\t" -> "\\t"
                [] OTHER -> c)
             \o Escaped(SubSeq(s, 2, Len(s)), quote)

PyReprStr(s) ==
    LET quote == IF Contains(s, "'") /\ ~Contains(s, "\"") THEN "\"" ELSE "'"
    IN  quote \o Escaped(s, quote) \o quote

\* repr() of a value of the action input
PyReprValue(v) ==
    CASE v.type = "str" -> PyReprStr(v.text)
      [] v.type = "int" -> ToString(v.number)
      [] v.type = "bool" -> (IF v.flag THEN "True" ELSE "False")
      [] OTHER -> "None"

\* repr() of the action input: every item, in the order of the input
RECURSIVE PyReprItems(_)
PyReprItems(args) ==
    IF args = << >> THEN ""
    ELSE PyReprStr(args[1].key) \o ": " \o PyReprValue(args[1].value)
         \o (IF Len(args) = 1 THEN "" ELSE ", " \o PyReprItems(Tail(args)))

PyReprDict(args) == "{" \o PyReprItems(args) \o "}"

\* pydantic prints the input of an error whole up to ReprLimit characters,
\* and beyond that its first half, "..." and one character less of its end
ReprLimit == 50

Truncated(r) ==
    LET half == (ReprLimit + 1) \div 2
    IN  IF Len(r) > ReprLimit
        THEN SubSeq(r, 1, half) \o "..." \o SubSeq(r, Len(r) - (half - 1) + 1, Len(r))
        ELSE r

\* The link pydantic adds to each error: the version is that of the
\* installed pydantic 2, which the repository does not pin
PydanticVersions == {"2.11", "2.13"}

PydanticDocs(type) ==
    "https://errors.pydantic.dev/" \o pydantic_version \o "/v/" \o type

\* pydantic's validation of a str given for an int field (str_as_int of
\* pydantic_core): the text is read as it is and, when that fails, cleaned
\* and read again.  Cleaning drops the white space at both ends, takes a
\* sign, then drops leading zeros, a decimal point followed by zeros only
\* and single underscores between characters.  TrimChars: the white space
\* a string of the model can hold
TrimChars == {" ", "\t", "\n", "\r", "\f"}

RECURSIVE LTrim(_)
LTrim(s) == IF s # "" /\ SubSeq(s, 1, 1) \in TrimChars THEN LTrim(SubSeq(s, 2, Len(s))) ELSE s

RECURSIVE RTrim(_)
RTrim(s) ==
    IF s # "" /\ SubSeq(s, Len(s), Len(s)) \in TrimChars
    THEN RTrim(SubSeq(s, 1, Len(s) - 1)) ELSE s

AsciiDigits == <<"0", "1", "2", "3", "4", "5", "6", "7", "8", "9">>

IsAsciiDigit(c) == \E i \in 1 .. Len(AsciiDigits) : AsciiDigits[i] = c

AsciiDigitValue(c) == (CHOOSE i \in 1 .. Len(AsciiDigits) : AsciiDigits[i] = c) - 1

RECURSIVE strip_leading_zeros(_, _)
\* strip_leading_zeros from character i on: the text begins with a digit;
\* behind a first "0", zeros and underscores are skipped up to a digit of
\* 1 to 9 or a "-", from which the rest is kept, or to a ".", before which
\* one character is kept; of zeros and underscores only, the last one is
\* kept.  None: the text cannot be an integer
strip_leading_zeros(s, i) ==
    IF i > Len(s) THEN (IF s = "" THEN None ELSE Some(SubSeq(s, Len(s), Len(s))))
    ELSE CASE SubSeq(s, i, i) = "0" \/ (SubSeq(s, i, i) = "_" /\ i > 1) ->
                 strip_leading_zeros(s, i + 1)
           [] SubSeq(s, i, i) \in {"1", "2", "3", "4", "5", "6", "7", "8", "9"} ->
                 Some(SubSeq(s, i, Len(s)))
           [] SubSeq(s, i, i) = "-" /\ i > 1 -> Some(SubSeq(s, i, Len(s)))
           [] SubSeq(s, i, i) = "." /\ i > 1 -> Some(SubSeq(s, i - 1, Len(s)))
           [] OTHER -> None

\* The characters before the first decimal point, when at least one
\* character follows it and all that follow are zeros; a text without a
\* point is kept, and None is passed on
strip_decimal_zeros(z) ==
    IF z = None \/ ~Contains(z[1], ".") THEN z
    ELSE LET dot == CHOOSE i \in 1 .. Len(z[1]) :
                       /\ SubSeq(z[1], i, i) = "."
                       /\ ~Contains(SubSeq(z[1], 1, i - 1), ".")
         IN  IF dot < Len(z[1]) /\ \A i \in dot + 1 .. Len(z[1]) : SubSeq(z[1], i, i) = "0"
             THEN Some(SubSeq(z[1], 1, dot - 1))
             ELSE None

RECURSIVE strip_underscores(_)
\* for a text with underscores that neither begins nor ends with one nor
\* holds two in a row (half by half)
strip_underscores(s) ==
    IF Len(s) <= 1 THEN (IF s = "_" THEN "" ELSE s)
    ELSE strip_underscores(SubSeq(s, 1, Len(s) \div 2))
         \o strip_underscores(SubSeq(s, Len(s) \div 2 + 1, Len(s)))

\* The cleaned text, a "-" the text begins with kept in front of it
clean_int_str(text) ==
    LET t == RTrim(LTrim(text))
        signed == t # "" /\ SubSeq(t, 1, 1) \in {"+", "-"}
        d == strip_decimal_zeros(
                 strip_leading_zeros(IF signed THEN SubSeq(t, 2, Len(t)) ELSE t, 1))
        minus == IF signed /\ SubSeq(t, 1, 1) = "-" THEN "-" ELSE ""
    IN  IF d = None THEN None
        ELSE IF \/ d = Some("")
                \/ "_" \in {SubSeq(d[1], 1, 1), SubSeq(d[1], Len(d[1]), Len(d[1]))}
                \/ \E i \in 1 .. Len(d[1]) - 1 : SubSeq(d[1], i, i + 1) = "__"
        THEN Some(minus \o d[1])
        ELSE Some(minus \o strip_underscores(d[1]))

RECURSIVE AsciiDigitsValue(_, _)
AsciiDigitsValue(d, acc) ==
    IF d = "" THEN acc
    ELSE AsciiDigitsValue(SubSeq(d, 2, Len(d)), 10 * acc + AsciiDigitValue(SubSeq(d, 1, 1)))

\* A text read as an integer, [ok |-> TRUE, value |-> n]: a "-" or none,
\* then decimal digits of which the first is "0" only when it is the only
\* one, no more than int_max_str_digits characters in all; ok = FALSE for
\* any other text
parse_str(c) ==
    IF c = None \/ c = Some("") \/ Len(c[1]) > int_max_str_digits
    THEN [ok |-> FALSE, value |-> 0, size |-> FALSE]
    ELSE LET d == IF SubSeq(c[1], 1, 1) = "-" THEN SubSeq(c[1], 2, Len(c[1])) ELSE c[1]
         IN  IF /\ d # ""
                /\ \A i \in 1 .. Len(d) : IsAsciiDigit(SubSeq(d, i, i))
                /\ Len(d) = 1 \/ SubSeq(d, 1, 1) # "0"
             THEN [ok |-> TRUE,
                   value |-> IF SubSeq(c[1], 1, 1) = "-" THEN 0 - AsciiDigitsValue(d, 0)
                             ELSE AsciiDigitsValue(d, 0),
                   size |-> FALSE]
             ELSE [ok |-> FALSE, value |-> 0, size |-> FALSE]

\* size: the text as given begins with a "-" or none and a digit of 1 to 9
\* and goes on with digits beyond int_max_str_digits characters
str_as_int(text) ==
    LET minus == IF text # "" /\ SubSeq(text, 1, 1) = "-" THEN 1 ELSE 0
    IN  IF /\ Len(text) > int_max_str_digits
           /\ SubSeq(text, minus + 1, minus + 1) \in
                 {"1", "2", "3", "4", "5", "6", "7", "8", "9"}
           /\ \A i \in 1 + minus .. int_max_str_digits + 1 :
                 IsAsciiDigit(SubSeq(text, i, i))
        THEN [ok |-> FALSE, value |-> 0, size |-> TRUE]
        ELSE parse_str(clean_int_str(text))

\* pydantic's validation of a str given for a bool field: one of these
\* words, in any case
UpperCase == <<"A", "B", "C", "D", "E", "F", "G", "H", "I", "J", "K", "L", "M",
               "N", "O", "P", "Q", "R", "S", "T", "U", "V", "W", "X", "Y", "Z">>
LowerCase == <<"a", "b", "c", "d", "e", "f", "g", "h", "i", "j", "k", "l", "m",
               "n", "o", "p", "q", "r", "s", "t", "u", "v", "w", "x", "y", "z">>

RECURSIVE AsciiLower(_)
AsciiLower(s) ==
    IF s = "" THEN ""
    ELSE LET c == SubSeq(s, 1, 1)
         IN  (IF \E i \in 1 .. Len(UpperCase) : UpperCase[i] = c
              THEN LowerCase[CHOOSE i \in 1 .. Len(UpperCase) : UpperCase[i] = c]
              ELSE c)
             \o AsciiLower(SubSeq(s, 2, Len(s)))

TrueWords == {"1", "on", "t", "true", "y", "yes"}
FalseWords == {"0", "off", "f", "false", "n", "no"}

\* The outcome of the validation of one value: the value the field gets,
\* or the type and the message of the error
Valid(v) == [ok |-> TRUE, value |-> v, type |-> "", msg |-> ""]
Invalid(type, msg) == [ok |-> FALSE, value |-> PyNone, type |-> type, msg |-> msg]

\* a str field takes a str only
validate_str(v) ==
    IF v.type = "str" THEN Valid(v)
    ELSE Invalid("string_type", "Input should be a valid string")

\* an int field takes an int, a bool (as 0 or 1) and a str of an integer
validate_int(v) ==
    CASE v.type = "int" -> Valid(v)
      [] v.type = "bool" -> Valid(PyInt(IF v.flag THEN 1 ELSE 0))
      [] v.type = "str" ->
            IF str_as_int(v.text).ok THEN Valid(PyInt(str_as_int(v.text).value))
            ELSE IF str_as_int(v.text).size
            THEN Invalid("int_parsing_size",
                         "Unable to parse input string as an integer, exceeded maximum size")
            ELSE Invalid("int_parsing",
                         "Input should be a valid integer, unable to parse string as an integer")
      [] OTHER -> Invalid("int_type", "Input should be a valid integer")

\* a bool | None field takes None, a bool, the ints 0 and 1, and a str
\* that is one of the words
validate_bool(v) ==
    CASE v.type \in {"NoneType", "bool"} -> Valid(v)
      [] v.type = "int" /\ v.number \in {0, 1} -> Valid(PyBool(v.number = 1))
      [] v.type = "str" /\ AsciiLower(v.text) \in TrueWords -> Valid(PyBool(TRUE))
      [] v.type = "str" /\ AsciiLower(v.text) \in FalseWords -> Valid(PyBool(FALSE))
      [] OTHER -> Invalid("bool_parsing",
                          "Input should be a valid boolean, unable to interpret input")

validate(f, v) ==
    CASE FieldType(f) = "int" -> validate_int(v)
      [] FieldType(f) = "bool" -> validate_bool(v)
      [] OTHER -> validate_str(v)

\* args_schema validation of StructuredTool: the errors of the action
\* input, field by field in declaration order (none: the input is valid).
\* A required field that is not given is an error whose input is the whole
\* dict; a key that is no field is ignored.
FieldErrors(name, args, f) ==
    IF f \notin Keys(args)
    THEN IF \E i \in 1 .. Len(RequiredFields(name)) : RequiredFields(name)[i] = f
         THEN <<[loc |-> f, type |-> "missing", msg |-> "Field required",
                 input_value |-> PyReprDict(args), input_type |-> "dict"]>>
         ELSE << >>
    ELSE IF validate(f, Get(args, f)).ok THEN << >>
         ELSE <<[loc |-> f, type |-> validate(f, Get(args, f)).type,
                 msg |-> validate(f, Get(args, f)).msg,
                 input_value |-> PyReprValue(Get(args, f)),
                 input_type |-> Get(args, f).type]>>

RECURSIVE ErrorsOf(_, _, _)
ErrorsOf(name, args, fields) ==
    IF fields = << >> THEN << >>
    ELSE FieldErrors(name, args, fields[1]) \o ErrorsOf(name, args, Tail(fields))

ValidationErrors(name, args) == ErrorsOf(name, args, DeclaredFields(name))

RECURSIVE ErrorLines(_)
ErrorLines(errors) ==
    IF errors = << >> THEN ""
    ELSE "\n" \o errors[1].loc
         \o "\n  " \o errors[1].msg \o " [type=" \o errors[1].type
         \o ", input_value=" \o Truncated(errors[1].input_value)
         \o ", input_type=" \o errors[1].input_type \o "]"
         \o "\n    For further information visit " \o PydanticDocs(errors[1].type)
         \o ErrorLines(Tail(errors))

\* pydantic's ValidationError of the action input
ValidationError(name, args) ==
    LET errors == ValidationErrors(name, args)
    IN  Exc("ValidationError", [i \in 1 .. Len(errors) |-> errors[i].loc],
            ToString(Len(errors)) \o " validation error"
                \o (IF Len(errors) = 1 THEN "" ELSE "s")
                \o " for " \o SchemaName(name) \o ErrorLines(errors))

\* The keyword arguments the function is called with: the validated values
\* of the schema's fields that the action input gives; other keys are
\* ignored.  A str is the string, an int the number, a bool | None the
\* optional boolean.
Native(f, v) ==
    CASE FieldType(f) = "int" -> v.number
      [] FieldType(f) = "bool" -> (IF v.type = "NoneType" THEN None ELSE Some(v.flag))
      [] OTHER -> v.text

Kwargs(name, args) ==
    [f \in Keys(args) \cap SchemaFields(name) |-> Native(f, validate(f, Get(args, f)).value)]

\* GoogleMapsFinder.search_and_get_details(query, location="") takes no
\* keyword named specialty, the field FindHCPsInput requires.
MapsFinderParams == {"query", "location"}

InvalidToolMsg(name) ==
    name \o " is not a valid tool, try one of [" \o Join(ToolNames) \o "]."

---------------------------------------------------------------------------
(* The model's output and JSONAgentOutputParser.  An output is JSON with   *)
(* an action and its input (the final text, or a JSON object of tool       *)
(* arguments), or any other text.                                          *)

NoOutput == [json |-> FALSE, action |-> "", text |-> "", args |-> << >>]
Garbage == [json |-> FALSE, action |-> "", text |-> "not an action", args |-> << >>]
FinalAnswer(t) == [json |-> TRUE, action |-> "Final Answer", text |-> t, args |-> << >>]
ToolCall(name, args) == [json |-> TRUE, action |-> name, text |-> "", args |-> args]

LLMOutputs ==
    {Garbage} \cup {FinalAnswer(t) : t \in {"Hello", "Done"}}
    \cup {ToolCall("FindHCPs", <<Item("specialty", PyStr("Cardiology"))>>),
          ToolCall("RecordContact", <<Item("hcp_id", PyInt(1))>>),
          ToolCall("RecordContact", << >>),
          ToolCall("RecordContact", <<Item("hcp_id", PyStr("it's"))>>),
          ToolCall("QueryHCPDatabase", <<Item("contacted", PyBool(FALSE))>>),
          ToolCall("Lookup", << >>)}

\* Faulty variant: the finish carries the action's name, not its input.
parse_output_is_action(out) ==
    IF ~out.json THEN [kind |-> "error", tool |-> "", output |-> ""]
    ELSE IF out.action = "Final Answer"
    THEN [kind |-> "finish", tool |-> "", output |-> out.action]
    ELSE [kind |-> "action", tool |-> out.action, output |-> ""]

\* parse: AgentFinish, AgentAction, or OutputParserException
parse(out) ==
    IF ~out.json THEN [kind |-> "error", tool |-> "", output |-> ""]
    ELSE IF out.action = "Final Answer"
    THEN [kind |-> "finish", tool |-> "", output |-> out.text]
    ELSE [kind |-> "action", tool |-> out.action, output |-> ""]

ParseErrorObservation == "Invalid or incomplete response"
StoppedMsg == "Agent stopped due to iteration limit or time limit."

---------------------------------------------------------------------------
(* Conversation memory and the dashboard's reply *)

Human(s) == [type |-> "human", content |-> s]
AI(s) == [type |-> "ai", content |-> s]

\* ConversationBufferMemory.save_context, called when invoke returns
save_context(mem, query, output) == mem \o <<Human(query), AI(output)>>

\* str(e)
ExcText(exc) == exc.message

\* process_message's string for an exception of run()
ApologyMsg(exc) ==
    "I apologize, but I encountered an error: " \o ExcText(exc)
        \o ". Let's try a different approach."

NoResult == [kind |-> "none", output |-> "", exc |-> NoExc]

\* run() returns output: memory saved, process_message returns it and
\* respond appends (message, reply) to the chat_history it was called
\* with, which becomes the chatbot's value
Returns(output) ==
    /\ memory' = save_context(memory, input, output)
    /\ run_result' = [kind |-> "returned", output |-> output, exc |-> NoExc]
    /\ chatbot' = Append(chat_history, <<input, output>>)
    /\ chat_history' = << >>
    /\ pc' = "idle"

\* run() raises exc: memory is not saved, process_message catches it
Raises(exc) ==
    /\ memory' = memory
    /\ run_result' = [kind |-> "raised", output |-> "", exc |-> exc]
    /\ chatbot' = Append(chat_history, <<input, ApologyMsg(exc)>>)
    /\ chat_history' = << >>
    /\ pc' = "idle"

\* The end of an iteration that produced a step: the step is recorded,
\* the counter incremented and the loop condition tested.
NextIteration(step) ==
    /\ intermediate_steps' = Append(intermediate_steps, step)
    /\ iterations' = iterations + 1
    /\ IF iterations + 1 < max_iterations
       THEN /\ pc' = "running"
            /\ UNCHANGED <<memory, chatbot, chat_history, run_result>>
       ELSE Returns(StoppedMsg)

AgentStep(tool, args, observation) ==
    [tool |-> tool, tool_input |-> args, observation |-> observation]

---------------------------------------------------------------------------
(* The dashboard chat: msg.submit -> respond -> process_message -> run.    *)
(* run() is AgentExecutor.invoke: one action per loop iteration (a model   *)
(* call, the parse of its output, the dispatch of the requested tool).     *)

\* The user's messages: the first one, and every later one.
Utterance(n) == IF n = 0 THEN "hi" ELSE "again"

\* respond(message, chat_history) up to the first model call
Submit ==
    /\ pc = "idle"
    /\ runs < MaxRuns
    /\ pc' = "running"
    /\ input' = Utterance(runs)
    /\ intermediate_steps' = << >>
    /\ iterations' = 0
    /\ invocations' = 0
    /\ llm_output' = NoOutput
    /\ run_result' = NoResult
    /\ runs' = runs + 1
    /\ model_calls' = 0
    /\ chat_history' = chatbot
    /\ UNCHANGED <<storeVars, chatVars, envVars>>

\* The guard of every loop iteration: AgentExecutor._should_continue
ShouldContinue == pc = "running" /\ iterations < max_iterations

\* Faulty variant: handle_parsing_errors left at False, the parse error is raised.
ParseFailureRaises(out) ==
    /\ ShouldContinue
    /\ parse(out).kind = "error"
    /\ llm_output' = out
    /\ Raises(Exc("ValueError", <<"output parsing error">>, "Could not parse LLM output"))
    /\ model_calls' = model_calls + 1
    /\ UNCHANGED <<storeVars, input, intermediate_steps, iterations, invocations, runs, envVars>>

\* handle_parsing_errors = True: the parse error becomes an _Exception step
ParseFailure(out) ==
    /\ ShouldContinue
    /\ parse(out).kind = "error"
    /\ llm_output' = out
    /\ NextIteration(AgentStep("_Exception", [query |-> ParseErrorObservation],
                               StrValue(ParseErrorObservation)))
    /\ model_calls' = model_calls + 1
    /\ UNCHANGED <<storeVars, input, invocations, runs, envVars>>

\* Faulty variant: the iteration that gives the final answer is counted.
FinishCounted(out) ==
    /\ ShouldContinue
    /\ parse(out).kind = "finish"
    /\ llm_output' = out
    /\ iterations' = iterations + 1
    /\ Returns(parse(out).output)
    /\ model_calls' = model_calls + 1
    /\ UNCHANGED <<storeVars, input, intermediate_steps, invocations, runs, envVars>>

\* AgentFinish: the final answer is the output of the run
Finish(out) ==
    /\ ShouldContinue
    /\ parse(out).kind = "finish"
    /\ llm_output' = out
    /\ Returns(parse(out).output)
    /\ model_calls' = model_calls + 1
    /\ UNCHANGED <<storeVars, input, intermediate_steps, iterations, invocations, runs, envVars>>

\* A name that is no tool: InvalidTool's observation, no function is called
CallInvalidTool(out) ==
    /\ ShouldContinue
    /\ parse(out).kind = "action"
    /\ ~IsTool(out.action)
    /\ llm_output' = out
    /\ NextIteration(AgentStep(out.action, out.args, StrValue(InvalidToolMsg(out.action))))
    /\ model_calls' = model_calls + 1
    /\ UNCHANGED <<storeVars, input, invocations, runs, envVars>>

\* The arguments fail the tool's args_schema: BaseTool.run re-raises the
\* ValidationError (handle_validation_error is not set), before the call
CallInvalidArgs(out) ==
    /\ ShouldContinue
    /\ parse(out).kind = "action"
    /\ IsTool(out.action)
    /\ ValidationErrors(out.action, out.args) # << >>
    /\ llm_output' = out
    /\ Raises(ValidationError(out.action, out.args))
    /\ model_calls' = model_calls + 1
    /\ UNCHANGED <<storeVars, input, intermediate_steps, iterations, invocations, runs, envVars>>

ValidCall(out, name) ==
    /\ ShouldContinue
    /\ parse(out).kind = "action"
    /\ out.action = name
    /\ ValidationErrors(name, out.args) = << >>

\* FindHCPs: func = maps_finder.search_and_get_details, called with the
\* schema's keywords (the action input is a JSON object), of which the
\* required one, specialty, is no parameter of the function: TypeError.
\* BaseTool.run re-raises what the function raises (no handle_tool_error).
UnexpectedKeywords(name, args) ==
    SelectSeq(<<"specialty", "location">>,
              LAMBDA f : f \in DOMAIN Kwargs(name, args) /\ f \notin MapsFinderParams)

\* The TypeError of the call: Python names the first keyword it cannot bind
UnexpectedKeyword(name, args) ==
    Exc("TypeError", UnexpectedKeywords(name, args),
        "GoogleMapsFinder.search_and_get_details() got an unexpected keyword argument '"
            \o UnexpectedKeywords(name, args)[1] \o "'")

CallFindHCPs(out) ==
    /\ ValidCall(out, "FindHCPs")
    /\ UnexpectedKeywords("FindHCPs", out.args) # << >>
    /\ llm_output' = out
    /\ invocations' = invocations + 1
    /\ last_call' = Call("search_and_get_details", Kwargs("FindHCPs", out.args),
                          StrValue(""), FALSE,
                          UnexpectedKeyword("FindHCPs", out.args))
    /\ Raises(UnexpectedKeyword("FindHCPs", out.args))
    /\ model_calls' = model_calls + 1
    /\ UNCHANGED <<hcp_data, csv_file, csv_truncated, updates, input, intermediate_steps,
                   iterations, runs, envVars>>

\* RecordContact: func = self._update_contact_record.  The model call,
\* the validation of the arguments and the call up to the return of an id
\* that is not found, which ends the iteration, or to the flag of one
\* that is: then the loop waits for to_csv
CallRecordContact(out) ==
    /\ ValidCall(out, "RecordContact")
    /\ llm_output' = out
    /\ invocations' = invocations + 1
    /\ UpdateContactRecord("respond", "_update_contact_record",
                           [hcp_id |-> Kwargs("RecordContact", out.args).hcp_id],
                           Kwargs("RecordContact", out.args).hcp_id)
    /\ IF Kwargs("RecordContact", out.args).hcp_id \in IdValues(hcp_data)
       THEN /\ pc' = "tool"
            /\ UNCHANGED <<intermediate_steps, iterations, memory, chatbot,
                           chat_history, run_result>>
       ELSE NextIteration(AgentStep(out.action, out.args, last_call'.value))
    /\ model_calls' = model_calls + 1
    /\ UNCHANGED <<input, runs, envVars>>

\* _update_contact_record returns to the RecordContact tool when to_csv
\* has closed the file: the end of the iteration
RecordContactReturns ==
    /\ pc = "tool"
    /\ ToCsvClose("respond")
    /\ NextIteration(AgentStep(llm_output.action, llm_output.args, last_call'.value))
    /\ UNCHANGED <<input, invocations, llm_output, runs, model_calls, envVars>>

\* QueryHCPDatabase: func = self._query_hcp_database, defaults for the
\* keywords the call does not give
CallQueryHCPDatabase(out) ==
    /\ ValidCall(out, "QueryHCPDatabase")
    /\ llm_output' = out
    /\ invocations' = invocations + 1
    /\ LET kw == Kwargs("QueryHCPDatabase", out.args)
       IN  QueryHcpDatabase(
               IF "specialty" \in DOMAIN kw THEN kw.specialty ELSE "",
               IF "city" \in DOMAIN kw THEN kw.city ELSE "",
               IF "contacted" \in DOMAIN kw THEN kw.contacted ELSE None)
    /\ NextIteration(AgentStep(out.action, out.args, last_call'.value))
    /\ model_calls' = model_calls + 1
    /\ UNCHANGED <<input, runs, envVars>>

\* GetOutreachCandidates: func = lambda: get_outreach_candidates(), no
\* arguments; what the function raises is re-raised by BaseTool.run
CallGetOutreachCandidates(out) ==
    /\ ValidCall(out, "GetOutreachCandidates")
    /\ llm_output' = out
    /\ invocations' = invocations + 1
    /\ model_calls' = model_calls + 1
    /\ GetOutreachCandidates
    /\ IF last_call'.exc = NoExc
       THEN NextIteration(AgentStep(out.action, out.args, last_call'.value))
       ELSE /\ Raises(last_call'.exc)
            /\ UNCHANGED <<intermediate_steps, iterations>>
    /\ UNCHANGED <<input, runs, envVars>>

\* The Clear Chat button: lambda: None into the chatbot component
ClearChat ==
    /\ chatbot' = << >>
    /\ UNCHANGED <<storeVars, memory, loopVars, envVars>>

---------------------------------------------------------------------------
(* Specification of the agent with its dashboard chat *)

FixtureFrame ==
    <<[hcp_id |-> 1, specialty |-> "Cardiology", city |-> "Berlin", contacted |-> FALSE],
      [hcp_id |-> 2, specialty |-> "cardiology", city |-> "Munich", contacted |-> TRUE]>>

\* NovaAgent.__init__ with the file holding the frame df
Constructed(df) ==
    /\ csv_file = to_csv(df)
    /\ hcp_data = read_csv(csv_file)
    /\ last_call = NoCall
    /\ memory = << >>
    /\ chatbot = << >>
    /\ chat_history = << >>
    /\ pc = "idle"
    /\ input = ""
    /\ intermediate_steps = << >>
    /\ iterations = 0
    /\ invocations = 0
    /\ llm_output = NoOutput
    /\ run_result = NoResult
    /\ runs = 0
    /\ model_calls = 0

\* What surrounds the agent: data/kartei.csv, no other process, and the
\* installed pydantic, one of versions
Environment(kartei, versions, pythons) ==
    /\ kartei_file = kartei
    /\ pydantic_version \in versions
    /\ python_version \in pythons
    /\ instances = << >>
    /\ last_writer = 0
    /\ csv_truncated = FALSE
    /\ updates = [t \in Threads |-> NoUpdate]
    /\ scrapers = [k \in Scrapers |-> IdleScraper(0)]

Init ==
    /\ Constructed(FixtureFrame)
    /\ Environment(NoFile, PydanticVersions, {12})

Next ==
    \/ Submit
    \/ \E out \in LLMOutputs :
          \/ ParseFailure(out)
          \/ Finish(out)
          \/ CallInvalidTool(out)
          \/ CallInvalidArgs(out)
          \/ CallFindHCPs(out)
          \/ CallRecordContact(out)
          \/ CallQueryHCPDatabase(out)
    \/ RecordContactReturns
    \/ ToCsvOpen("respond") /\ UNCHANGED <<chatVars, loopVars, envVars>>
    \/ ToCsvFormat("respond") /\ UNCHANGED <<chatVars, loopVars, envVars>>
    \/ ClearChat

Spec == Init /\ [][Next]_vars

---------------------------------------------------------------------------
(* Specification of the contact store's update: any frame up to the        *)
(* bounds, _update_contact_record called directly and through the          *)
(* dashboard's record_contact, any number of times.                        *)

CallIds == Ids \cup {3}

InitStore ==
    /\ \E df \in StoreFrames : Constructed(df)
    /\ Environment(NoFile, {"2.13"}, {11, 12})

NextStore ==
    \/ \E hcp_id \in CallIds :
          /\ UpdateContactRecord("respond", "_update_contact_record",
                                 [hcp_id |-> hcp_id], hcp_id)
          /\ UNCHANGED <<chatVars, loopVars, envVars>>
    \/ \E text \in Texts : record_contact(text) /\ UNCHANGED <<chatVars, loopVars, envVars>>
    \/ \E t \in Threads : ToCsvOpen(t) /\ UNCHANGED <<chatVars, loopVars, envVars>>
    \/ \E t \in Threads : ToCsvFormat(t) /\ UNCHANGED <<chatVars, loopVars, envVars>>
    \/ \E t \in Threads : ToCsvClose(t) /\ UNCHANGED <<chatVars, loopVars, envVars>>

SpecStore == InitStore /\ [][NextStore]_vars

---------------------------------------------------------------------------
(* Specification of the contact store's query: _query_hcp_database applied *)
(* once to any frame up to the bounds with any filter.                     *)

InitFind ==
    /\ \E df \in Frames : Constructed(df)
    /\ Environment(NoFile, {"2.13"}, {12})

NextFind ==
    /\ last_call = NoCall
    /\ \E specialty \in {""} \cup Specialties, city \in {""} \cup Cities,
          contacted \in {None, Some(TRUE), Some(FALSE)} :
          QueryHcpDatabase(specialty, city, contacted)
    /\ UNCHANGED <<chatVars, loopVars, envVars>>

SpecFind == InitFind /\ [][NextFind]_vars

---------------------------------------------------------------------------
(* Specification of the agent's contact tools: runs in which the model     *)
(* asks for RecordContact, GetOutreachCandidates and QueryHCPDatabase,     *)
(* with data/kartei.csv missing or holding the same rows as                *)
(* data/hcp_combined.csv when the agent starts, beside two scrapers that   *)
(* each call update_kartei, whose read of the file, opening of it for      *)
(* writing and write are steps of their own.                               *)

ContactOutputs ==
    {FinalAnswer("Done"),
     ToolCall("RecordContact", <<Item("hcp_id", PyInt(1))>>),
     ToolCall("GetOutreachCandidates", << >>),
     ToolCall("QueryHCPDatabase", <<Item("contacted", PyBool(FALSE))>>)}

InitContact ==
    /\ Constructed(FixtureFrame)
    /\ \E kartei \in {NoFile, File(csv_file)} : Environment(kartei, {"2.13"}, {12})

\* What a scraper hands to update_kartei
ScrapedData ==
    {[rows |-> << >>, with_contacted |-> FALSE],
     [rows |-> <<[hcp_id |-> 1, specialty |-> "Cardiology", city |-> "Berlin",
                  contacted |-> TRUE]>>, with_contacted |-> FALSE],
     [rows |-> <<[hcp_id |-> 2, specialty |-> "cardiology", city |-> "Munich",
                  contacted |-> TRUE]>>, with_contacted |-> TRUE]}

\* What a step of update_kartei leaves alone
contactOthers == <<chatVars, loopVars, instances, last_writer, csv_truncated, updates,
                   pydantic_version, python_version>>

NextContact ==
    \/ Submit
    \/ \E k \in Scrapers, scraped \in ScrapedData :
          ReadKartei(k, scraped) /\ UNCHANGED contactOthers
    \/ \E k \in Scrapers : OpenKartei(k) /\ UNCHANGED contactOthers
    \/ \E k \in Scrapers : WriteKartei(k) /\ UNCHANGED contactOthers
    \/ \E out \in ContactOutputs :
          \/ Finish(out)
          \/ CallRecordContact(out)
          \/ CallGetOutreachCandidates(out)
          \/ CallQueryHCPDatabase(out)
    \/ RecordContactReturns
    \/ ToCsvOpen("respond") /\ UNCHANGED <<chatVars, loopVars, envVars>>
    \/ ToCsvFormat("respond") /\ UNCHANGED <<chatVars, loopVars, envVars>>

SpecContact == InitContact /\ [][NextContact]_vars

---------------------------------------------------------------------------
(* Specification of two NovaAgent processes over one data/hcp_combined.csv *)
(* (the dashboard and the console, say).  Each instance reads the file     *)
(* once, in __init__, and _update_contact_record is three steps that       *)
(* other processes can interleave with: the assignment of the flag in the  *)
(* instance's frame, to_csv opening the file, which empties it, and to_csv *)
(* writing that whole frame and closing.  Nothing locks the file.  The     *)
(* file is a sequence of rows: bytes within a row are not told apart.      *)

Agents == {1, 2}

\* NovaAgent.__init__ of an instance: its own frame, read from the file;
\* pd.read_csv of a file without a byte raises EmptyDataError and the
\* process has no agent (up = FALSE)
Started(file, truncated) ==
    [hcp_data |-> IF truncated THEN << >> ELSE read_csv(file),
     last_call |-> NoCall, pending |-> 0, opened |-> FALSE, up |-> ~truncated]

\* hcp_id is found: self.hcp_data.loc[...] = True, to_csv still to come
SetFlag(k, hcp_id) ==
    /\ instances[k].up
    /\ instances[k].pending = 0
    /\ update_contact_record(instances[k].hcp_data, hcp_id).wrote
    /\ instances' = [instances EXCEPT ![k] =
           [@ EXCEPT !.hcp_data = update_contact_record(@, hcp_id).df,
                     !.pending = hcp_id]]
    /\ UNCHANGED <<csv_file, last_writer, csv_truncated>>

\* Faulty variant: the file is opened only when no other instance is in
\* an update (a lock around the read-modify-write).
OpenFileLocked(k) ==
    /\ instances[k].pending # 0
    /\ ~instances[k].opened
    /\ \A j \in Agents \ {k} : instances[j].pending = 0
    /\ csv_file' = << >>
    /\ csv_truncated' = TRUE
    /\ instances' = [instances EXCEPT ![k] = [@ EXCEPT !.opened = TRUE]]
    /\ UNCHANGED last_writer

\* to_csv opens the file for writing: open(path, "w") empties it
OpenFile(k) ==
    /\ instances[k].pending # 0
    /\ ~instances[k].opened
    /\ csv_file' = << >>
    /\ csv_truncated' = TRUE
    /\ instances' = [instances EXCEPT ![k] = [@ EXCEPT !.opened = TRUE]]
    /\ UNCHANGED last_writer

\* to_csv writes and closes: the frames here are far smaller than the
\* handle's buffer, so all the rows reach the file in one write, from its
\* start, when the handle is closed; then the success message is returned
WriteFile(k) ==
    /\ instances[k].opened
    /\ csv_file' = Overwritten(csv_file, to_csv(instances[k].hcp_data))
    /\ csv_truncated' = FALSE
    /\ instances' = [instances EXCEPT ![k] =
           [@ EXCEPT !.pending = 0,
                     !.opened = FALSE,
                     !.last_call =
                         [fn |-> "_update_contact_record",
                          args |-> [hcp_id |-> instances[k].pending],
                          value |-> StrValue(MarkedMsg(instances[k].pending)),
                          wrote |-> TRUE, exc |-> NoExc,
                          repeat |-> (@.fn = "_update_contact_record"
                                      /\ @.args = [hcp_id |-> instances[k].pending])]]]
    /\ last_writer' = k

\* hcp_id is not found: the not-found message, nothing else
NotFound(k, hcp_id) ==
    /\ instances[k].up
    /\ instances[k].pending = 0
    /\ ~update_contact_record(instances[k].hcp_data, hcp_id).wrote
    /\ instances' = [instances EXCEPT ![k] =
           [@ EXCEPT !.last_call =
                         [fn |-> "_update_contact_record",
                          args |-> [hcp_id |-> hcp_id],
                          value |-> StrValue(update_contact_record(
                                        instances[k].hcp_data, hcp_id).result),
                          wrote |-> FALSE, exc |-> NoExc,
                          repeat |-> (@.fn = "_update_contact_record"
                                      /\ @.args = [hcp_id |-> hcp_id])]]]
    /\ UNCHANGED <<csv_file, last_writer, csv_truncated>>

\* The process is started again: a new instance reads the file
Start(k) ==
    /\ instances[k].pending = 0
    /\ instances[k] # Started(csv_file, csv_truncated)
    /\ instances' = [instances EXCEPT ![k] = Started(csv_file, csv_truncated)]
    /\ UNCHANGED <<csv_file, last_writer, csv_truncated>>

InitRace ==
    /\ \E df \in StoreFrames : Constructed(df)
    /\ kartei_file = NoFile
    /\ instances = [k \in Agents |-> Started(csv_file, FALSE)]
    /\ last_writer = 0
    /\ csv_truncated = FALSE
    /\ updates = [t \in Threads |-> NoUpdate]
    /\ scrapers = [k \in Scrapers |-> IdleScraper(0)]
    /\ pydantic_version = "2.13"
    /\ python_version = 12

\* The dashboard's own agent and chat are left out of the race
raceOthers == <<hcp_data, last_call, updates, kartei_file, chatVars, loopVars, scrapers,
                pydantic_version, python_version>>

NextRace ==
    \/ \E k \in Agents, hcp_id \in CallIds : SetFlag(k, hcp_id) /\ UNCHANGED raceOthers
    \/ \E k \in Agents : OpenFile(k) /\ UNCHANGED raceOthers
    \/ \E k \in Agents : WriteFile(k) /\ UNCHANGED raceOthers
    \/ \E k \in Agents, hcp_id \in CallIds : NotFound(k, hcp_id) /\ UNCHANGED raceOthers
    \/ \E k \in Agents : Start(k) /\ UNCHANGED raceOthers

SpecRace == InitRace /\ [][NextRace]_vars

---------------------------------------------------------------------------
(* Properties of the contact store *)

\* The id a call of _update_contact_record was made with, directly or
\* through record_contact (whose text is a number).
IsMarkCall(c) ==
    \/ c.fn = "_update_contact_record"
    \/ c.fn = "record_contact" /\ int[python_version][c.args.hcp_id].ok

MarkId(c) ==
    IF c.fn = "record_contact" THEN int[python_version][c.args.hcp_id].value ELSE c.args.hcp_id

\* A call returns in this step: last_call takes it.  (A call that is the
\* third in a row with the same function, arguments and outcome leaves
\* last_call as it is.)
Returned ==
    \/ last_call'.fn # last_call.fn
    \/ last_call'.args # last_call.args
    \/ last_call'.value # last_call.value
    \/ last_call'.repeat # last_call.repeat

\* The successful call of _update_contact_record with hcp_id that c is
\* left the file holding the frame, flags and all
WroteFrame(c, hcp_id) ==
    /\ IsMarkCall(c)
    /\ c.wrote
    /\ MarkId(c) = hcp_id
    /\ c.store[2] = to_csv(c.store[1])

\* C7: marking an id that is not in the store as contacted returns the
\* not-found result and changes nothing: the frame keeps its rows and
\* their flags, and the file is not written.
C7_NotFoundLeavesStore ==
    [][(Returned /\ IsMarkCall(last_call') /\ MarkId(last_call') \notin IdValues(hcp_data))
          => /\ last_call'.value = StrValue(NotFoundMsg(MarkId(last_call')))
             /\ last_call'.value # StrValue(MarkedMsg(MarkId(last_call')))
             /\ ~last_call'.wrote
             /\ hcp_data' = hcp_data
             /\ csv_file' = csv_file
             /\ csv_truncated' = csv_truncated
             /\ \A t \in Threads : updates'[t].at = updates[t].at]_vars

C7_Witness ==
    /\ IsMarkCall(last_call)
    /\ hcp_data # << >>
    /\ MarkId(last_call) \notin IdValues(hcp_data)
    /\ last_call.value.text = NotFoundMsg(MarkId(last_call))
    /\ \E i \in 1 .. Len(hcp_data) : ~hcp_data[i].contacted

Passes(r, q) ==
    /\ q.specialty = "" \/ r.specialty = q.specialty
    /\ q.city = "" \/ r.city = q.city
    /\ q.contacted = None \/ r.contacted = q.contacted[1]

\* C9: a query returns the rows of the store that equal, case-sensitively,
\* every filter that is given, in the store's order (the first 10 of them;
\* the string "No HCPs found." when there is none); a filter that is not
\* given excludes no row.
C9_FindFilters ==
    last_call.fn = "_query_hcp_database" =>
        LET q == last_call.args
            passing == SelectSeq(hcp_data, LAMBDA r : Passes(r, q))
            got == last_call.value
        IN  IF passing = << >>
            THEN got.kind = "str" /\ got.text = "No HCPs found."
            ELSE /\ got.kind = "list"
                 /\ Len(got.rows) = (IF Len(passing) < 10 THEN Len(passing) ELSE 10)
                 /\ \A i \in 1 .. Len(got.rows) : got.rows[i] = passing[i]

\* Both filters given, against a store whose other row has the city asked
\* for and the specialty in another case: one row is returned.
C9_Witness ==
    /\ last_call.fn = "_query_hcp_database"
    /\ last_call.args.specialty = "Cardiology"
    /\ last_call.args.city = "Berlin"
    /\ last_call.args.contacted = None
    /\ Len(hcp_data) = 2
    /\ hcp_data[1].specialty = "cardiology" /\ hcp_data[1].city = "Berlin"
    /\ hcp_data[2].specialty = "Cardiology" /\ hcp_data[2].city = "Berlin"
    /\ last_call.value.rows = <<hcp_data[2]>>

---------------------------------------------------------------------------
(* Properties of run() *)

\* A step of the loop: an iteration is counted or the run ends.
IsLoopStep == pc # "idle" /\ (iterations' = iterations + 1 \/ pc' = "idle")

IsFinalAnswer(out) == out.json /\ out.action = "Final Answer"

IsRequest(out) == out.json /\ out.action # "Final Answer"

AllParseFailures(steps) ==
    \A i \in 1 .. Len(steps) :
        /\ steps[i].tool = "_Exception"
        /\ steps[i].observation.text = "Invalid or incomplete response"

AllRequests(steps) == \A i \in 1 .. Len(steps) : steps[i].tool # "_Exception"

\* C1: run() never raises: whatever the model answers and whatever the
\* dispatched tool does, the run ends by returning a string.
C1_RunNeverRaises == run_result.kind # "raised"

\* C2: a run in which every output of the model is unparseable goes on
\* while fewer than max_iterations parse failures are recorded and ends
\* with exactly max_iterations of them, iterations = max_iterations, by
\* returning the fixed stop message, which the dashboard shows.
C2_UnparseableStopsAtLimit ==
    (runs > 0 /\ ~llm_output.json /\ AllParseFailures(intermediate_steps)) =>
        /\ iterations = Len(intermediate_steps)
        /\ iterations <= max_iterations
        /\ pc = "running" => iterations < max_iterations
        /\ pc = "idle" =>
              /\ iterations = max_iterations
              /\ run_result.kind = "returned"
              /\ run_result.output = "Agent stopped due to iteration limit or time limit."
              /\ memory # << >> /\ memory[Len(memory)] = AI(run_result.output)

C2_Witness ==
    /\ pc = "idle"
    /\ ~llm_output.json
    /\ AllParseFailures(intermediate_steps)
    /\ Len(intermediate_steps) = 5
    /\ iterations = 5
    /\ run_result.output = StoppedMsg

\* C3: a run of N tool requests, one per iteration, and then a final
\* answer extends the transcript by N + 2 turns in this order: the user's
\* turn, the N tool results, the assistant's turn.
C3_TranscriptHoldsToolResults ==
    [][(IsLoopStep /\ IsFinalAnswer(llm_output') /\ pc' = "idle"
            /\ AllRequests(intermediate_steps))
          => /\ Len(memory') = Len(memory) + Len(intermediate_steps) + 2
             /\ memory'[Len(memory) + 1].type = "human"
             /\ \A i \in 1 .. Len(intermediate_steps) :
                   memory'[Len(memory) + 1 + i].type = "tool"
             /\ memory'[Len(memory')].type = "ai"]_vars

\* C4: when the first output of the model in a run is a final answer T,
\* run() returns T as it is, the memory grows by the user's turn and the
\* assistant's turn with T and by nothing else, and no tool is dispatched:
\* no step is recorded, no function is called, the store is not touched.
C4_ImmediateFinalAnswer ==
    [][(IsLoopStep /\ iterations = 0 /\ IsFinalAnswer(llm_output'))
          => /\ pc' = "idle"
             /\ run_result'.kind = "returned"
             /\ run_result'.output = llm_output'.text
             /\ chatbot'[Len(chatbot')] = <<input, llm_output'.text>>
             /\ Len(memory') = Len(memory) + 2
             /\ SubSeq(memory', 1, Len(memory)) = memory
             /\ memory'[Len(memory) + 1] = [type |-> "human", content |-> input]
             /\ memory'[Len(memory) + 2] = [type |-> "ai", content |-> llm_output'.text]
             /\ intermediate_steps' = << >>
             /\ invocations' = 0
             /\ UNCHANGED <<hcp_data, csv_file, last_call>>]_vars

C4_Witness ==
    /\ pc = "idle"
    /\ iterations = 0
    /\ intermediate_steps = << >>
    /\ invocations = 0
    /\ llm_output = FinalAnswer("Hello")
    /\ run_result.kind = "returned"
    /\ run_result.output = "Hello"
    /\ Len(memory) = 4
    /\ memory[4] = AI("Hello")

\* C5: when the function of a dispatched tool raises, the exception is not
\* propagated: a step carrying the error is recorded, the run does not end
\* by raising and, below the iteration limit, goes on to the next model call.
C5_ToolErrorBecomesResult ==
    [][(IsLoopStep /\ invocations' = invocations + 1 /\ last_call'.exc.type # "")
          => /\ run_result'.kind # "raised"
             /\ Len(intermediate_steps') = Len(intermediate_steps) + 1
             /\ intermediate_steps'[Len(intermediate_steps')].tool = llm_output'.action
             /\ iterations' < max_iterations => pc' = "running"]_vars

\* C6: when the arguments of a requested tool lack a required field, the
\* tool's function is not called and nothing it could change is changed,
\* and the dispatch gives a result, recorded as a step, not an exception.
C6_MissingFieldBecomesResult ==
    [][(IsLoopStep /\ IsRequest(llm_output') /\ IsTool(llm_output'.action)
            /\ \E f \in {"specialty", "query", "name", "city", "hcp_id"} :
                  /\ \E i \in 1 .. Len(RequiredFields(llm_output'.action)) :
                        RequiredFields(llm_output'.action)[i] = f
                  /\ f \notin Keys(llm_output'.args))
          => /\ invocations' = invocations
             /\ UNCHANGED <<hcp_data, csv_file, last_call>>
             /\ run_result'.kind # "raised"
             /\ Len(intermediate_steps') = Len(intermediate_steps) + 1
             /\ intermediate_steps'[Len(intermediate_steps')].tool = llm_output'.action]_vars

\* C10: Clear Chat empties the conversation, so that the next run's model
\* context (the memory) holds no earlier turn; any other step leaves the
\* turns the memory holds as they are.
C10_ClearChatResetsMemory ==
    [][IF chatbot # << >> /\ chatbot' = << >>
       THEN memory' = << >>
       ELSE Len(memory') >= Len(memory) /\ SubSeq(memory', 1, Len(memory)) = memory]_vars

---------------------------------------------------------------------------
(* Properties of the iteration budget and of the order of a run's steps *)

\* How a run stands: the spec's status, read off the loop's state. A run
\* that returned ended with the model's final answer ("completed") or with
\* the stop message after a tool request ("exhausted") or after a parse
\* failure ("failed"); a run that raised has none of the three.
Status ==
    IF pc # "idle" THEN "running"
    ELSE IF runs = 0 THEN "none"
    ELSE IF run_result.kind = "raised" THEN "raised"
    ELSE IF IsFinalAnswer(llm_output) THEN "completed"
    ELSE IF IsRequest(llm_output) THEN "exhausted"
    ELSE "failed"

\* The model asked for a tool in every iteration of the run so far
ToolCallEveryIteration ==
    /\ model_calls > 0
    /\ IsRequest(llm_output)
    /\ AllRequests(intermediate_steps)

\* C11: the iteration counter never exceeds max_iterations; a run in which
\* the model asks for a tool in every iteration ends exhausted after
\* exactly max_iterations dispatches, by returning the stop message, which
\* is appended to the conversation; every run that has ended is completed,
\* exhausted or failed, after at most max_iterations model calls that did
\* not give a final answer.
C11_BudgetEndsEveryRun ==
    /\ iterations <= max_iterations
    /\ model_calls - (IF IsFinalAnswer(llm_output) THEN 1 ELSE 0) <= max_iterations
    /\ (pc = "idle" /\ runs > 0) =>
          /\ Status \in {"completed", "exhausted", "failed"}
          /\ ToolCallEveryIteration =>
                /\ Status = "exhausted"
                /\ iterations = max_iterations
                /\ Len(intermediate_steps) = max_iterations
                /\ run_result.output = StoppedMsg
                /\ memory[Len(memory)] = AI(StoppedMsg)

\* C12: a model call yields at most one action; a requested tool is
\* dispatched at most once, in the iteration of its request; and the
\* dispatch appends the tool result as a turn of the transcript, behind
\* the turns it holds, in that same iteration, before the next model call.
C12_OneDispatchPerRequest ==
    [][(IsLoopStep /\ IsRequest(llm_output'))
          => /\ model_calls' = model_calls + (IF pc = "tool" THEN 0 ELSE 1)
             /\ invocations' \in {invocations, invocations + 1}
             /\ Len(memory') = Len(memory) + 1
             /\ SubSeq(memory', 1, Len(memory)) = memory
             /\ memory'[Len(memory')].type = "tool"]_vars

\* C13 as stated: the iteration counter is the number of model calls made
\* so far in the run at every point, the end with a final answer included
\* (stated for the runs that do not raise).
C13_IterationsCountModelCalls ==
    /\ (pc = "running" /\ model_calls = 0) => iterations = 0
    /\ (runs > 0 /\ run_result.kind # "raised") => iterations = model_calls

\* C13: the iteration counter is 0 when a run begins and counts the model
\* calls that were recorded as a step (a tool's result, the unknown-tool
\* notice, a parse failure): it equals the number of model calls while
\* the run goes on and when it ends at the limit, and is one less when
\* the last model call gave the final answer or its dispatch raised.
C13_IterationsCountRecordedSteps ==
    /\ (pc = "running" /\ model_calls = 0) =>
          iterations = 0 /\ intermediate_steps = << >>
    /\ runs > 0 =>
          /\ iterations = Len(intermediate_steps)
          /\ model_calls =
                iterations + (IF pc = "tool" \/ Status \in {"completed", "raised"}
                              THEN 1 ELSE 0)

\* A second run that ended with the final answer of its third model call
C13_Witness ==
    /\ runs = 2
    /\ Status = "completed"
    /\ model_calls = 3
    /\ iterations = 2
    /\ Len(intermediate_steps) = 2

---------------------------------------------------------------------------
(* Properties of the contact store under two processes *)

\* The instance's last call reported that it marked hcp_id
ReportedSuccess(k, hcp_id) ==
    /\ instances[k].pending = 0
    /\ instances[k].last_call.wrote
    /\ instances[k].last_call.value = StrValue(MarkedMsg(hcp_id))

\* The file has a row of hcp_id, and it is not flagged
Unflagged(file, hcp_id) ==
    /\ \E i \in 1 .. Len(file) : file[i].hcp_id = hcp_id
    /\ \A i \in 1 .. Len(file) : file[i].hcp_id = hcp_id => ~read_csv(file)[i].contacted

Flagged(file, hcp_id) ==
    /\ \E i \in 1 .. Len(file) : file[i].hcp_id = hcp_id
    /\ \A i \in 1 .. Len(file) : file[i].hcp_id = hcp_id => read_csv(file)[i].contacted

\* C14: nothing locks the store: while one instance is in an update (its
\* flag set, the file perhaps opened), the other instance can start and
\* can go on with an update of its own; and a write replaces the whole
\* file by the writing instance's own frame: once its update has returned
\* and until the file is opened again, the file is the frame of the
\* instance that wrote last, so a flag that only the other instance had
\* set and reported is not in the file.
C14_LastWriterOverwrites ==
    \A k \in Agents : \A j \in Agents \ {k} :
        /\ (last_writer = k /\ instances[k].pending = 0 /\ ~csv_truncated) =>
               /\ csv_file = to_csv(instances[k].hcp_data)
               /\ \A hcp_id \in Ids :
                     (ReportedSuccess(j, hcp_id)
                         /\ Unflagged(to_csv(instances[k].hcp_data), hcp_id))
                        => Unflagged(csv_file, hcp_id)
        /\ instances[j].pending # 0 =>
               /\ instances[k].opened => ENABLED WriteFile(k)
               /\ (instances[k].pending # 0 /\ ~instances[k].opened) => ENABLED OpenFile(k)
               /\ \A hcp_id \in IdValues(instances[k].hcp_data) :
                     (instances[k].up /\ instances[k].pending = 0)
                        => ENABLED SetFlag(k, hcp_id)

\* The lost update: both instances reported success, for different ids,
\* and the file holds the flag of one of the two only.
C14_Witness ==
    /\ ~csv_truncated
    /\ ReportedSuccess(1, 1)
    /\ ReportedSuccess(2, 2)
    /\ last_writer = 2
    /\ Flagged(csv_file, 2)
    /\ Unflagged(csv_file, 1)

---------------------------------------------------------------------------
(* Properties of the contact flag across the tools *)

\* The store holds hcp_id flagged as contacted
ContactedInStore(hcp_id) ==
    \E i \in 1 .. Len(hcp_data) : hcp_data[i].hcp_id = hcp_id /\ hcp_data[i].contacted

\* C15: the contacted flag RecordContact writes is the one the other
\* tools read: what GetOutreachCandidates returns holds no id that the
\* store has flagged as contacted, and what QueryHCPDatabase returns for
\* contacted = false holds none either.
C15_ContactedNeverListed ==
    /\ (last_call.fn = "get_outreach_candidates" /\ last_call.exc = NoExc) =>
          \A i \in 1 .. Len(last_call.value.rows) :
              ~ContactedInStore(last_call.value.rows[i].hcp_id)
    /\ (last_call.fn = "_query_hcp_database" /\ last_call.args.contacted = Some(FALSE)) =>
          \A i \in 1 .. Len(last_call.value.rows) :
              ~ContactedInStore(last_call.value.rows[i].hcp_id)

===========================================================================
